---- MODULE Spec2Model ----
(***************************************************************************)
(* Model of cinderclient/v1/volumes.py: the Volume resource and the        *)
(* VolumeManager.  One caller issues one call at a time; a call runs the   *)
(* statements of the method it names, the transport answers each request   *)
(* with a (status, body) pair or raises.                                   *)
(***************************************************************************)
EXTENDS Integers, Sequences, FiniteSets, TLC

VARIABLES
    hooks,      \* registered 'modify_body_for_action' hooks, in registration order
    pc,         \* position of the running call
    rcall,      \* the Volume convenience call the caller made, if any
    call,       \* the VolumeManager method entered and its bound arguments
    action,     \* _action: the action name
    volume,     \* _action / delete: the volume argument
    info,       \* _action: the info payload
    body,       \* the request body being built
    baseBody,   \* history: the body as constructed, before any hook ran
    hookLeft,   \* history: the body object as the hooks left it
    url,        \* the request url
    helper,     \* which transport helper the method uses and its response key
    requests,   \* history: requests sent by the running call
    response,   \* what the transport returned or raised
    result,     \* what the call returned or raised
    trace       \* history: the events of the running call, in order

vars == <<hooks, pc, rcall, call, action, volume, info, body, baseBody,
          hookLeft, url, helper, requests, response, result, trace>>

-----------------------------------------------------------------------------
(* Bounds *)

MaxHooks == 2
MaxSize == 2

-----------------------------------------------------------------------------
(* Python values.  Scalars share one record shape; dicts are functions     *)
(* over their keys.                                                        *)

PyNone == [t |-> "None", s |-> "", n |-> 0]
PyStr(x) == [t |-> "str", s |-> x, n |-> 0]
PyInt(k) == [t |-> "int", s |-> "", n |-> k]
PyTrue == [t |-> "bool", s |-> "", n |-> 1]
PyFalse == [t |-> "bool", s |-> "", n |-> 0]
Omitted == [t |-> "omitted", s |-> "", n |-> 0]

EmptyDict == [k \in {} |-> PyNone]

HasKey(d, k) == k \in DOMAIN d

SetItem(d, k, v) == [x \in (DOMAIN d) \cup {k} |-> IF x = k THEN v ELSE d[x]]

Default(arg, d) == IF arg = Omitted THEN d ELSE arg

Digits == <<"0", "1", "2", "3", "4", "5", "6", "7", "8", "9">>

RECURSIVE IntStr(_)
IntStr(k) == IF k < 10 THEN Digits[k + 1]
             ELSE IntStr(k \div 10) \o Digits[(k % 10) + 1]

NewVolume(attrs) == [t |-> "Volume", info |-> attrs]

VolumeRepr(v) == "<Volume: " \o
                 (IF v.info.id.t = "int" THEN IntStr(v.info.id.n) ELSE v.info.id.s)
                 \o ">"

Str(v) == CASE v.t = "str" -> v.s
            [] v.t = "int" -> IntStr(v.n)
            [] v.t = "None" -> "None"
            [] v.t = "bool" -> (IF v.n = 1 THEN "True" ELSE "False")
            [] v.t = "Volume" -> VolumeRepr(v)

getid(obj) == IF obj.t = "Volume" THEN obj.info.id ELSE obj

-----------------------------------------------------------------------------
(* Inputs *)

Ids == <<PyStr("abc123"), PyInt(1234)>>
ServerIds == <<PyStr("srv-1")>>
Sizes == 1..MaxSize
OptArgs == <<Omitted, PyStr("x")>>
DetailedArgs == <<Omitted, PyTrue, PyFalse, PyInt(1)>>
Uuids == <<PyStr("uuid-1"), PyStr("uuid-2")>>
Mountpoints == <<PyStr("/dev/vdb")>>
Devices == <<PyStr("/dev/vdc")>>
Connectors == << [ip |-> PyStr("10.0.0.1")],
                 [ip |-> PyStr("10.0.0.2"), host |-> PyStr("h1")] >>
HookKeys == {"x-hint", "x-extra"}

Range(f) == {f[i] : i \in DOMAIN f}

VolumeOf(i) == NewVolume([id |-> Ids[i], size |-> PyInt(1)])

\* a volume argument: the Resource or its raw identifier
VolumeArg(i, asResource) == IF asResource THEN VolumeOf(i) ELSE Ids[i]

-----------------------------------------------------------------------------
(* The transport: what api.client returns or raises.                       *)

Ok(status, b) == [ok |-> TRUE, status |-> status, body |-> b, exc |-> ""]
Err(status, e) == [ok |-> FALSE, status |-> status, body |-> EmptyDict, exc |-> e]
NoResponse == [ok |-> FALSE, status |-> 0, body |-> EmptyDict, exc |-> "no-response"]

Failures == <<Err(404, "NotFound"), Err(0, "ConnectionError")>>

VolumeJson(i) == [id |-> Ids[i], size |-> PyInt(1)]
AttachmentJson(i) == [id |-> Ids[i], volumeId |-> Ids[i], device |-> Devices[1]]
ConnInfo(x) == [driver_volume_type |-> PyStr(x)]

ItemResponses == <<Ok(200, [volume |-> VolumeJson(1)]),
                   Ok(200, [volume |-> VolumeJson(2)]),
                   Ok(200, [unexpected |-> PyNone])>> \o Failures

ListResponses == <<Ok(200, [volumes |-> <<>>]),
                   Ok(200, [volumes |-> <<VolumeJson(1)>>]),
                   Ok(200, [volumes |-> <<VolumeJson(2), VolumeJson(1)>>])>>
                 \o Failures

DeleteResponses == <<Ok(202, EmptyDict)>> \o Failures

AttachmentResponses == <<Ok(200, [volumeAttachment |-> AttachmentJson(1)]),
                         Ok(200, [unexpected |-> PyNone])>> \o Failures

AttachmentListResponses == <<Ok(200, [volumeAttachments |-> <<AttachmentJson(1)>>])>>
                           \o Failures

RawActionResponses == <<Ok(202, EmptyDict),
                        Ok(200, [note |-> PyStr("n")])>> \o Failures

InitializeResponses == <<Ok(200, [connection_info |-> ConnInfo("iscsi")]),
                         Ok(202, [connection_info |-> ConnInfo("iscsi"),
                                  extra |-> PyStr("e1")]),
                         Ok(200, [connection_info |-> ConnInfo("rbd"),
                                  extra |-> PyStr("e1")]),
                         Ok(200, [connection_info |-> ConnInfo("rbd"),
                                  extra |-> PyStr("e2")]),
                         Ok(200, [extra |-> PyStr("e1")])>> \o Failures

TerminateResponses == <<Ok(202, EmptyDict),
                        Ok(200, [connection_info |-> ConnInfo("iscsi")])>>
                      \o Failures

ResponsesFor(op) ==
    CASE op \in {"create", "get"} -> ItemResponses
      [] op = "list" -> ListResponses
      [] op \in {"delete", "delete_server_volume"} -> DeleteResponses
      [] op \in {"create_server_volume", "get_server_volume"} -> AttachmentResponses
      [] op = "get_server_volumes" -> AttachmentListResponses
      [] op \in {"attach", "detach", "reserve", "unreserve"} -> RawActionResponses
      [] op = "initialize_connection" -> InitializeResponses
      [] op = "terminate_connection" -> TerminateResponses

-----------------------------------------------------------------------------
(* Results of a call *)

NoResult == [kind |-> "pending", val |-> PyNone]
Return(kind, v) == [kind |-> kind, val |-> v]
ReturnNone == Return("None", PyNone)
Raise(e) == [kind |-> "raise", val |-> PyStr(e)]

-----------------------------------------------------------------------------
(* base.py helpers used by the manager *)

RECURSIVE run_hooks(_, _)
run_hooks(hs, b) == IF hs = <<>> THEN b
                    ELSE run_hooks(Tail(hs), SetItem(b, Head(hs), PyStr("hooked")))

ResourceFrom(resp, key) ==
    IF HasKey(resp.body, key) THEN Return("Volume", NewVolume(resp.body[key]))
    ELSE Raise("KeyError")

ResourceListFrom(resp, key) ==
    IF HasKey(resp.body, key)
    THEN Return("list", [i \in DOMAIN resp.body[key] |-> NewVolume(resp.body[key][i])])
    ELSE Raise("KeyError")

HelperRequest(h, u, b) == [method |-> h.method, url |-> u, body |-> b]

-----------------------------------------------------------------------------
(* VolumeManager: request construction *)

\* variant of CreateBody that leaves out the arguments that are None
CreateBodyOmitUnset(size, snapshot_id, display_name, display_description, volume_type) ==
    LET full == [size |-> size,
                 snapshot_id |-> snapshot_id,
                 display_name |-> display_name,
                 display_description |-> display_description,
                 volume_type |-> volume_type]
        keep == {k \in DOMAIN full : full[k] # PyNone}
    IN [volume |-> [k \in keep |-> full[k]]]

CreateBody(size, snapshot_id, display_name, display_description, volume_type) ==
    [volume |-> [size |-> size,
                 snapshot_id |-> snapshot_id,
                 display_name |-> display_name,
                 display_description |-> display_description,
                 volume_type |-> volume_type]]

GetUrl(volume_id) == "/volumes/" \o Str(volume_id)

\* variant of ListUrl with the two branches exchanged
ListUrlSwapped(detailed) == IF detailed = PyTrue THEN "/volumes" ELSE "/volumes/detail"

ListUrl(detailed) == IF detailed = PyTrue THEN "/volumes/detail" ELSE "/volumes"

\* variant of DeleteUrl that formats the argument itself, without getid
DeleteUrlNoGetid(v) == "/volumes/" \o Str(v)

DeleteUrl(v) == "/volumes/" \o Str(getid(v))

ServerVolumeBody(volume_id, device) ==
    [volumeAttachment |-> [volumeId |-> volume_id, device |-> device]]

ServerVolumesUrl(server_id) ==
    "/servers/" \o Str(server_id) \o "/os-volume_attachments"

ServerVolumeUrl(server_id, attachment_id) ==
    "/servers/" \o Str(server_id) \o "/os-volume_attachments/" \o Str(attachment_id)

ActionBaseBody(a, i) == [k \in {a} |-> i]

\* variant of BodyAfterHooks in which the hooks are handed a copy of the body
BodyAfterHooksCopy(b, hs) == b

BodyAfterHooks(b, hs) == run_hooks(hs, b)

ActionUrl(v) == "/volumes/" \o Str(getid(v)) \o "/action"

ActionRequest(u, b) == [method |-> "POST", url |-> u, body |-> b]

\* variant of ActionPcNext in which run_hooks follows the post
ActionPcNextHooksLate(p) == CASE p = "body" -> "url"
                              [] p = "url" -> "post"
                              [] p = "post" -> "hooks"
                              [] p = "hooks" -> "return"

\* the statements of _action, in order
ActionPcNext(p) == CASE p = "body" -> "hooks"
                     [] p = "hooks" -> "url"
                     [] p = "url" -> "post"
                     [] p = "post" -> "return"

\* variant of AttachInfo with the two values exchanged
AttachInfoSwapped(instance_uuid, mountpoint) ==
    [instance_uuid |-> mountpoint, mountpoint |-> instance_uuid]

AttachInfo(instance_uuid, mountpoint) ==
    [instance_uuid |-> instance_uuid, mountpoint |-> mountpoint]

ConnectorInfo(connector) == [connector |-> connector]

-----------------------------------------------------------------------------
(* VolumeManager: what each method returns for a transport response *)

RawActionReturn(resp) == Return("raw", [status |-> resp.status, body |-> resp.body])

\* variant of InitializeConnectionReturn that returns the whole response body
InitializeConnectionReturnBody(resp) == Return("value", resp.body)

\* variant of InitializeConnectionReturn that reads the key with a default
InitializeConnectionReturnGet(resp) ==
    IF HasKey(resp.body, "connection_info")
    THEN Return("value", resp.body["connection_info"])
    ELSE ReturnNone

InitializeConnectionReturn(resp) ==
    IF HasKey(resp.body, "connection_info")
    THEN Return("value", resp.body["connection_info"])
    ELSE Raise("KeyError")

\* variant of TerminateConnectionReturn that returns the action response
TerminateConnectionReturnRaw(resp) == RawActionReturn(resp)

TerminateConnectionReturn(resp) == ReturnNone

DeleteReturn(resp) == ReturnNone

ReturnValue(op, h, resp) ==
    IF ~resp.ok THEN Raise(resp.exc)
    ELSE CASE op \in {"attach", "detach", "reserve", "unreserve"} -> RawActionReturn(resp)
           [] op = "initialize_connection" -> InitializeConnectionReturn(resp)
           [] op = "terminate_connection" -> TerminateConnectionReturn(resp)
           [] op \in {"delete", "delete_server_volume"} -> DeleteReturn(resp)
           [] op \in {"list", "get_server_volumes"} -> ResourceListFrom(resp, h.key)
           [] OTHER -> ResourceFrom(resp, h.key)

-----------------------------------------------------------------------------
(* State *)

NoHelper == [name |-> "", method |-> "", key |-> ""]
NoCall == [op |-> "", args |-> <<>>]
NoRCall == [method |-> "", self |-> PyNone, args |-> <<>>]

Init ==
    /\ hooks = <<>>
    /\ pc = "idle"
    /\ rcall = NoRCall
    /\ call = NoCall
    /\ action = ""
    /\ volume = PyNone
    /\ info = PyNone
    /\ body = PyNone
    /\ baseBody = PyNone
    /\ hookLeft = PyNone
    /\ url = ""
    /\ helper = NoHelper
    /\ requests = <<>>
    /\ response = NoResponse
    /\ result = NoResult
    /\ trace = <<>>

\* no call is running: the caller may make the next one
Idle == pc \in {"idle", "done"}

\* a new call starts with fresh locals and an empty history
NewCall ==
    /\ baseBody' = PyNone
    /\ hookLeft' = PyNone
    /\ requests' = <<>>
    /\ response' = NoResponse
    /\ trace' = <<>>
    /\ UNCHANGED hooks

\* a method that hands a url (and body) to one of the base helpers
EnterHelper(op, args, h, u, b) ==
    /\ call' = [op |-> op, args |-> args]
    /\ helper' = h
    /\ url' = u
    /\ body' = b
    /\ action' = ""
    /\ volume' = PyNone
    /\ info' = PyNone
    /\ result' = NoResult
    /\ pc' = "send"

\* a method that calls self._action(action, volume, info)
EnterAction(op, args, a, v, i) ==
    /\ call' = [op |-> op, args |-> args]
    /\ helper' = [name |-> "_action", method |-> "POST", key |-> ""]
    /\ action' = a
    /\ volume' = v
    /\ info' = i
    /\ url' = ""
    /\ body' = PyNone
    /\ result' = NoResult
    /\ pc' = "body"

-----------------------------------------------------------------------------
(* VolumeManager methods, as entered with bound arguments *)

MgrCreate(size, a_snap, a_name, a_desc, a_type) ==
    EnterHelper("create", <<size, a_snap, a_name, a_desc, a_type>>,
                [name |-> "_create", method |-> "POST", key |-> "volume"],
                "/volumes",
                CreateBody(size, Default(a_snap, PyNone), Default(a_name, PyNone),
                           Default(a_desc, PyNone), Default(a_type, PyNone)))

MgrGet(volume_id) ==
    EnterHelper("get", <<volume_id>>,
                [name |-> "_get", method |-> "GET", key |-> "volume"],
                GetUrl(volume_id), PyNone)

MgrList(a_detailed) ==
    EnterHelper("list", <<a_detailed>>,
                [name |-> "_list", method |-> "GET", key |-> "volumes"],
                ListUrl(Default(a_detailed, PyTrue)), PyNone)

MgrDelete(v) ==
    EnterHelper("delete", <<v>>,
                [name |-> "_delete", method |-> "DELETE", key |-> ""],
                DeleteUrl(v), PyNone)

MgrCreateServerVolume(server_id, volume_id, device) ==
    EnterHelper("create_server_volume", <<server_id, volume_id, device>>,
                [name |-> "_create", method |-> "POST", key |-> "volumeAttachment"],
                ServerVolumesUrl(server_id), ServerVolumeBody(volume_id, device))

MgrGetServerVolume(server_id, attachment_id) ==
    EnterHelper("get_server_volume", <<server_id, attachment_id>>,
                [name |-> "_get", method |-> "GET", key |-> "volumeAttachment"],
                ServerVolumeUrl(server_id, attachment_id), PyNone)

MgrGetServerVolumes(server_id) ==
    EnterHelper("get_server_volumes", <<server_id>>,
                [name |-> "_list", method |-> "GET", key |-> "volumeAttachments"],
                ServerVolumesUrl(server_id), PyNone)

MgrDeleteServerVolume(server_id, attachment_id) ==
    EnterHelper("delete_server_volume", <<server_id, attachment_id>>,
                [name |-> "_delete", method |-> "DELETE", key |-> ""],
                ServerVolumeUrl(server_id, attachment_id), PyNone)

MgrAttach(v, instance_uuid, mountpoint) ==
    EnterAction("attach", <<v, instance_uuid, mountpoint>>,
                "os-attach", v, AttachInfo(instance_uuid, mountpoint))

MgrDetach(v) == EnterAction("detach", <<v>>, "os-detach", v, PyNone)

MgrReserve(v) == EnterAction("reserve", <<v>>, "os-reserve", v, PyNone)

MgrUnreserve(v) == EnterAction("unreserve", <<v>>, "os-unreserve", v, PyNone)

MgrInitializeConnection(v, connector) ==
    EnterAction("initialize_connection", <<v, connector>>,
                "os-initialize_connection", v, ConnectorInfo(connector))

MgrTerminateConnection(v, connector) ==
    EnterAction("terminate_connection", <<v, connector>>,
                "os-terminate_connection", v, ConnectorInfo(connector))

-----------------------------------------------------------------------------
(* Calls made on the manager *)

Create ==
    \E size \in Sizes, s1 \in DOMAIN OptArgs, s2 \in DOMAIN OptArgs,
       s3 \in DOMAIN OptArgs, s4 \in DOMAIN OptArgs :
        /\ Idle /\ NewCall /\ rcall' = NoRCall
        /\ MgrCreate(PyInt(size), OptArgs[s1], OptArgs[s2], OptArgs[s3], OptArgs[s4])

Get ==
    \E i \in DOMAIN Ids :
        /\ Idle /\ NewCall /\ rcall' = NoRCall
        /\ MgrGet(Ids[i])

List ==
    \E d \in DOMAIN DetailedArgs :
        /\ Idle /\ NewCall /\ rcall' = NoRCall
        /\ MgrList(DetailedArgs[d])

Delete ==
    \E i \in DOMAIN Ids, r \in BOOLEAN :
        /\ Idle /\ NewCall /\ rcall' = NoRCall
        /\ MgrDelete(VolumeArg(i, r))

CreateServerVolume ==
    \E sv \in DOMAIN ServerIds, i \in DOMAIN Ids, d \in DOMAIN Devices :
        /\ Idle /\ NewCall /\ rcall' = NoRCall
        /\ MgrCreateServerVolume(ServerIds[sv], Ids[i], Devices[d])

GetServerVolume ==
    \E sv \in DOMAIN ServerIds, i \in DOMAIN Ids :
        /\ Idle /\ NewCall /\ rcall' = NoRCall
        /\ MgrGetServerVolume(ServerIds[sv], Ids[i])

GetServerVolumes ==
    \E sv \in DOMAIN ServerIds :
        /\ Idle /\ NewCall /\ rcall' = NoRCall
        /\ MgrGetServerVolumes(ServerIds[sv])

DeleteServerVolume ==
    \E sv \in DOMAIN ServerIds, i \in DOMAIN Ids :
        /\ Idle /\ NewCall /\ rcall' = NoRCall
        /\ MgrDeleteServerVolume(ServerIds[sv], Ids[i])

Attach ==
    \E i \in DOMAIN Ids, r \in BOOLEAN, u \in DOMAIN Uuids, m \in DOMAIN Mountpoints :
        /\ Idle /\ NewCall /\ rcall' = NoRCall
        /\ MgrAttach(VolumeArg(i, r), Uuids[u], Mountpoints[m])

Detach ==
    \E i \in DOMAIN Ids, r \in BOOLEAN :
        /\ Idle /\ NewCall /\ rcall' = NoRCall
        /\ MgrDetach(VolumeArg(i, r))

Reserve ==
    \E i \in DOMAIN Ids, r \in BOOLEAN :
        /\ Idle /\ NewCall /\ rcall' = NoRCall
        /\ MgrReserve(VolumeArg(i, r))

Unreserve ==
    \E i \in DOMAIN Ids, r \in BOOLEAN :
        /\ Idle /\ NewCall /\ rcall' = NoRCall
        /\ MgrUnreserve(VolumeArg(i, r))

InitializeConnection ==
    \E i \in DOMAIN Ids, r \in BOOLEAN, c \in DOMAIN Connectors :
        /\ Idle /\ NewCall /\ rcall' = NoRCall
        /\ MgrInitializeConnection(VolumeArg(i, r), Connectors[c])

TerminateConnection ==
    \E i \in DOMAIN Ids, r \in BOOLEAN, c \in DOMAIN Connectors :
        /\ Idle /\ NewCall /\ rcall' = NoRCall
        /\ MgrTerminateConnection(VolumeArg(i, r), Connectors[c])

\* an extension registers a hook for 'modify_body_for_action', between calls;
\* the finished call's locals and history are dropped
AddHook ==
    \E k \in HookKeys :
        /\ Idle
        /\ Len(hooks) < MaxHooks
        /\ hooks' = Append(hooks, k)
        /\ pc' = "idle"
        /\ rcall' = NoRCall
        /\ call' = NoCall
        /\ action' = ""
        /\ volume' = PyNone
        /\ info' = PyNone
        /\ body' = PyNone
        /\ baseBody' = PyNone
        /\ hookLeft' = PyNone
        /\ url' = ""
        /\ helper' = NoHelper
        /\ requests' = <<>>
        /\ response' = NoResponse
        /\ result' = NoResult
        /\ trace' = <<>>

-----------------------------------------------------------------------------
(* The statements of _action and of the base helpers *)

ActionBody ==
    /\ pc = "body"
    /\ body' = ActionBaseBody(action, info)
    /\ baseBody' = body'
    /\ trace' = Append(trace, "body")
    /\ pc' = ActionPcNext("body")
    /\ UNCHANGED <<hooks, rcall, call, action, volume, info, hookLeft, url,
                   helper, requests, response, result>>

ActionRunHooks ==
    /\ pc = "hooks"
    /\ body' = BodyAfterHooks(body, hooks)
    /\ hookLeft' = run_hooks(hooks, body)
    /\ trace' = Append(trace, "hooks")
    /\ pc' = ActionPcNext("hooks")
    /\ UNCHANGED <<hooks, rcall, call, action, volume, info, baseBody, url,
                   helper, requests, response, result>>

ActionMakeUrl ==
    /\ pc = "url"
    /\ url' = ActionUrl(volume)
    /\ pc' = ActionPcNext("url")
    /\ UNCHANGED <<hooks, rcall, call, action, volume, info, body, baseBody,
                   hookLeft, helper, requests, response, result, trace>>

ActionPost ==
    /\ pc = "post"
    /\ \E r \in DOMAIN ResponsesFor(call.op) :
        LET resp == ResponsesFor(call.op)[r] IN
        /\ requests' = Append(requests, ActionRequest(url, body))
        /\ response' = resp
        /\ pc' = IF resp.ok THEN ActionPcNext("post") ELSE "return"
    /\ trace' = Append(trace, "post")
    /\ UNCHANGED <<hooks, rcall, call, action, volume, info, body, baseBody,
                   hookLeft, url, helper, result>>

HelperSend ==
    /\ pc = "send"
    /\ \E r \in DOMAIN ResponsesFor(call.op) :
        /\ requests' = Append(requests, HelperRequest(helper, url, body))
        /\ response' = ResponsesFor(call.op)[r]
    /\ trace' = Append(trace, "send")
    /\ pc' = "return"
    /\ UNCHANGED <<hooks, rcall, call, action, volume, info, body, baseBody,
                   hookLeft, url, helper, result>>

ReturnStep ==
    /\ pc = "return"
    /\ result' = ReturnValue(call.op, helper, response)
    /\ pc' = "done"
    /\ UNCHANGED <<hooks, rcall, call, action, volume, info, body, baseBody,
                   hookLeft, url, helper, requests, response, trace>>

-----------------------------------------------------------------------------
(* Volume: the convenience methods of the resource *)

\* the parameters each method declares after self
VolumeParams(m) ==
    CASE m = "delete" -> <<>>
      [] m = "attach" -> <<"instance_uuid", "mountpoint">>
      [] m = "detach" -> <<>>
      [] m = "reserve" -> <<"volume">>
      [] m = "unreserve" -> <<"volume">>
      [] m = "initialize_connection" -> <<"volume", "connector">>
      [] m = "terminate_connection" -> <<"volume", "connector">>

\* the parameters each method's docstring documents
DocumentedParams(m) ==
    CASE m = "delete" -> <<>>
      [] m = "attach" -> <<"instance_uuid", "mountpoint">>
      [] m = "detach" -> <<>>
      [] m = "reserve" -> <<>>
      [] m = "unreserve" -> <<>>
      [] m = "initialize_connection" -> <<"connector">>
      [] m = "terminate_connection" -> <<"connector">>

\* positional binding of a call's arguments to a method's parameters
Binds(m, a) == Len(a) = Len(VolumeParams(m))

Param(m, a, name) == a[CHOOSE i \in DOMAIN VolumeParams(m) : VolumeParams(m)[i] = name]

\* the call never reaches the method body: TypeError, nothing else happens
VolumeBindFailure ==
    /\ result' = Raise("TypeError")
    /\ call' = NoCall
    /\ helper' = NoHelper
    /\ action' = ""
    /\ volume' = PyNone
    /\ info' = PyNone
    /\ url' = ""
    /\ body' = PyNone
    /\ pc' = "done"

\* what the caller passes: the documented arguments, or those preceded by a volume
CallerArgs(documented, withVolume, j) ==
    IF withVolume THEN <<Ids[j]>> \o documented ELSE documented

VolumeDelete ==
    \E i \in DOMAIN Ids, j \in DOMAIN Ids, w \in BOOLEAN :
        LET self == VolumeOf(i)
            a == CallerArgs(<<>>, w, j) IN
        /\ Idle /\ NewCall
        /\ rcall' = [method |-> "delete", self |-> self, args |-> a]
        /\ IF Binds("delete", a) THEN MgrDelete(self) ELSE VolumeBindFailure

VolumeAttach ==
    \E i \in DOMAIN Ids, j \in DOMAIN Ids, w \in BOOLEAN,
       u \in DOMAIN Uuids, m \in DOMAIN Mountpoints :
        LET self == VolumeOf(i)
            a == CallerArgs(<<Uuids[u], Mountpoints[m]>>, w, j) IN
        /\ Idle /\ NewCall
        /\ rcall' = [method |-> "attach", self |-> self, args |-> a]
        /\ IF Binds("attach", a)
           THEN MgrAttach(self, Param("attach", a, "instance_uuid"),
                          Param("attach", a, "mountpoint"))
           ELSE VolumeBindFailure

VolumeDetach ==
    \E i \in DOMAIN Ids, j \in DOMAIN Ids, w \in BOOLEAN :
        LET self == VolumeOf(i)
            a == CallerArgs(<<>>, w, j) IN
        /\ Idle /\ NewCall
        /\ rcall' = [method |-> "detach", self |-> self, args |-> a]
        /\ IF Binds("detach", a) THEN MgrDetach(self) ELSE VolumeBindFailure

VolumeReserve ==
    \E i \in DOMAIN Ids, j \in DOMAIN Ids, w \in BOOLEAN :
        LET self == VolumeOf(i)
            a == CallerArgs(<<>>, w, j) IN
        /\ Idle /\ NewCall
        /\ rcall' = [method |-> "reserve", self |-> self, args |-> a]
        /\ IF Binds("reserve", a) THEN MgrReserve(self) ELSE VolumeBindFailure

VolumeUnreserve ==
    \E i \in DOMAIN Ids, j \in DOMAIN Ids, w \in BOOLEAN :
        LET self == VolumeOf(i)
            a == CallerArgs(<<>>, w, j) IN
        /\ Idle /\ NewCall
        /\ rcall' = [method |-> "unreserve", self |-> self, args |-> a]
        /\ IF Binds("unreserve", a) THEN MgrUnreserve(self) ELSE VolumeBindFailure

VolumeInitializeConnection ==
    \E i \in DOMAIN Ids, j \in DOMAIN Ids, w \in BOOLEAN, c \in DOMAIN Connectors :
        LET self == VolumeOf(i)
            a == CallerArgs(<<Connectors[c]>>, w, j) IN
        /\ Idle /\ NewCall
        /\ rcall' = [method |-> "initialize_connection", self |-> self, args |-> a]
        /\ IF Binds("initialize_connection", a)
           THEN MgrInitializeConnection(self,
                    Param("initialize_connection", a, "connector"))
           ELSE VolumeBindFailure

VolumeTerminateConnection ==
    \E i \in DOMAIN Ids, j \in DOMAIN Ids, w \in BOOLEAN, c \in DOMAIN Connectors :
        LET self == VolumeOf(i)
            a == CallerArgs(<<Connectors[c]>>, w, j) IN
        /\ Idle /\ NewCall
        /\ rcall' = [method |-> "terminate_connection", self |-> self, args |-> a]
        /\ IF Binds("terminate_connection", a)
           THEN MgrTerminateConnection(self,
                    Param("terminate_connection", a, "connector"))
           ELSE VolumeBindFailure

-----------------------------------------------------------------------------

Next ==
    \/ Create \/ Get \/ List \/ Delete
    \/ CreateServerVolume \/ GetServerVolume \/ GetServerVolumes \/ DeleteServerVolume
    \/ Attach \/ Detach \/ Reserve \/ Unreserve
    \/ InitializeConnection \/ TerminateConnection
    \/ VolumeDelete \/ VolumeAttach \/ VolumeDetach \/ VolumeReserve
    \/ VolumeUnreserve \/ VolumeInitializeConnection \/ VolumeTerminateConnection
    \/ AddHook
    \/ ActionBody \/ ActionRunHooks \/ ActionMakeUrl \/ ActionPost
    \/ HelperSend \/ ReturnStep

Spec == Init /\ [][Next]_vars

-----------------------------------------------------------------------------
(* Properties *)

ActionOps == {"attach", "detach", "reserve", "unreserve",
              "initialize_connection", "terminate_connection"}

RawActionOps == {"attach", "detach", "reserve", "unreserve"}

\* the text of each identifier of Ids inside a url
IdText == <<"abc123", "1234">>

\* x is volume i, given as the Resource or as its raw identifier
IsVolumeArg(x, i) == IF x.t = "Volume" THEN x.info.id = Ids[i] ELSE x = Ids[i]

\* the action name each method sends
ActionName(op) ==
    CASE op = "attach" -> "os-attach"
      [] op = "detach" -> "os-detach"
      [] op = "reserve" -> "os-reserve"
      [] op = "unreserve" -> "os-unreserve"
      [] op = "initialize_connection" -> "os-initialize_connection"
      [] op = "terminate_connection" -> "os-terminate_connection"

Finished == pc = "done"

CreateKeys == <<"size", "snapshot_id", "display_name", "display_description",
                "volume_type">>

\* C1: create sends exactly one POST to /volumes whose body is {"volume": M},
\* M having exactly the five keys, size as given, every unset optional
\* argument present as null, and it returns the Volume parsed from the
\* 'volume' key of the response, whose id is the server-assigned id.
C1_CreateRequestAndResult ==
    (call.op = "create" /\ pc \in {"return", "done"}) =>
        /\ Len(requests) = 1
        /\ requests[1].method = "POST"
        /\ requests[1].url = "/volumes"
        /\ DOMAIN requests[1].body = {"volume"}
        /\ LET M == requests[1].body.volume IN
            /\ DOMAIN M = Range(CreateKeys)
            /\ \A k \in DOMAIN CreateKeys :
                M[CreateKeys[k]] = (IF call.args[k] = Omitted THEN PyNone
                                    ELSE call.args[k])
        /\ (Finished /\ response.ok /\ HasKey(response.body, "volume")) =>
            /\ result.kind = "Volume"
            /\ result.val.info = response.body.volume
            /\ result.val.info.id = response.body.volume.id

C1_Witness ==
    /\ Finished /\ call.op = "create"
    /\ call.args[2] = Omitted /\ call.args[3] # Omitted
    /\ result.kind = "Volume"
    /\ result.val.info.id = Ids[2]

\* C2: list GETs /volumes/detail for detailed=True or when the argument is
\* omitted, /volumes for detailed=False, and in both cases returns the
\* Volumes parsed from the 'volumes' key of the response.
C2_ListEndpoint ==
    (call.op = "list" /\ pc \in {"return", "done"}) =>
        /\ Len(requests) = 1
        /\ requests[1].method = "GET"
        /\ (call.args[1] \in {Omitted, PyTrue} => requests[1].url = "/volumes/detail")
        /\ (call.args[1] = PyFalse => requests[1].url = "/volumes")
        /\ (Finished /\ response.ok) =>
            /\ result.kind = "list"
            /\ Len(result.val) = Len(response.body.volumes)
            /\ \A i \in DOMAIN result.val :
                result.val[i].info = response.body.volumes[i]

C2_Witness ==
    /\ Finished /\ call.op = "list"
    /\ call.args[1] = PyFalse
    /\ requests[1].url = "/volumes"
    /\ result.kind = "list" /\ Len(result.val) = 2

\* C3: delete of volume x sends the same single DELETE /volumes/x and returns
\* nothing whether x is given as a Volume or as the raw identifier; every
\* action builds /volumes/x/action from either form alike.
C3_ResourceOrRawId ==
    \A i \in DOMAIN Ids :
        /\ (call.op = "delete" /\ pc \in {"return", "done"}
              /\ IsVolumeArg(call.args[1], i)) =>
            /\ Len(requests) = 1
            /\ requests[1].method = "DELETE"
            /\ requests[1].url = "/volumes/" \o IdText[i]
            /\ requests[1].body = PyNone
            /\ (Finished /\ response.ok => result.kind = "None")
        /\ (call.op \in ActionOps /\ requests # <<>>
              /\ IsVolumeArg(call.args[1], i)) =>
            requests[1].url = "/volumes/" \o IdText[i] \o "/action"

C3_Witness ==
    /\ Finished /\ call.op = "delete" /\ rcall.method = ""
    /\ call.args[1].t = "Volume"
    /\ requests[1].url = "/volumes/abc123"
    /\ result.kind = "None"

\* C4: every action POSTs to /volumes/x/action; its base body has exactly one
\* key, the action name, mapped to the info payload: os-attach to
\* {instance_uuid, mountpoint} with the caller's values, os-detach, os-reserve
\* and os-unreserve to null, the connection actions to {"connector": connector};
\* no other path or verb is used.
C4_ActionBody ==
    (call.op \in ActionOps) =>
        /\ (baseBody # PyNone) =>
            /\ DOMAIN baseBody = {ActionName(call.op)}
            /\ LET payload == baseBody[ActionName(call.op)] IN
                /\ (call.op = "attach") =>
                    /\ DOMAIN payload = {"instance_uuid", "mountpoint"}
                    /\ payload.instance_uuid = call.args[2]
                    /\ payload.mountpoint = call.args[3]
                /\ (call.op \in {"detach", "reserve", "unreserve"}) =>
                    payload = PyNone
                /\ (call.op \in {"initialize_connection", "terminate_connection"}) =>
                    /\ DOMAIN payload = {"connector"}
                    /\ payload.connector = call.args[2]
        /\ (requests # <<>>) => baseBody # PyNone
        /\ \A r \in DOMAIN requests :
            /\ requests[r].method = "POST"
            /\ \E i \in DOMAIN Ids :
                /\ IsVolumeArg(call.args[1], i)
                /\ requests[r].url = "/volumes/" \o IdText[i] \o "/action"

C4_Witness ==
    /\ Finished /\ call.op = "attach"
    /\ Len(requests) = 1
    /\ call.args[2] = Uuids[2]
    /\ requests[1].body["os-attach"].instance_uuid = Uuids[2]

ActionEvents == <<"body", "hooks", "post">>

\* C5: in every action call the hooks run exactly once, after the base body
\* is constructed and before the POST is sent; no request is sent before the
\* hooks ran and no hook runs after the request.
C5_HooksOnceBeforePost ==
    (call.op \in ActionOps) =>
        /\ Len(trace) <= Len(ActionEvents)
        /\ trace = SubSeq(ActionEvents, 1, Len(trace))
        /\ (pc \in {"return", "done"}) => trace = ActionEvents
        /\ (requests # <<>>) => trace = ActionEvents

C5_Witness ==
    /\ Finished /\ call.op \in ActionOps
    /\ Len(hooks) >= 1
    /\ trace = ActionEvents
    /\ Len(requests) = 1

\* C6: initialize_connection returns exactly the value under 'connection_info'
\* of the response body; the status and the sibling keys play no part.
C6_InitializeConnectionResult ==
    (call.op = "initialize_connection" /\ Finished /\ response.ok
       /\ HasKey(response.body, "connection_info")) =>
        /\ result.kind = "value"
        /\ result.val = response.body.connection_info

C6_Witness ==
    /\ Finished /\ call.op = "initialize_connection"
    /\ response.ok /\ response.status = 202
    /\ HasKey(response.body, "extra")
    /\ result.kind = "value"
    /\ result.val = ConnInfo("iscsi")

\* C7: terminate_connection returns no value whatever the server answered,
\* while attach, detach, reserve and unreserve return the transport's
\* (status, body) pair unchanged.
C7_TerminateReturnsNothing ==
    /\ (call.op = "terminate_connection" /\ Finished /\ response.ok) =>
        result.kind = "None"
    /\ (call.op \in RawActionOps /\ Finished /\ response.ok) =>
        /\ result.kind = "raw"
        /\ result.val.status = response.status
        /\ result.val.body = response.body

C7_Witness ==
    /\ Finished /\ call.op = "terminate_connection"
    /\ response.ok
    /\ DOMAIN response.body # {}
    /\ result.kind = "None"

\* C8: each Volume convenience method, called with its documented arguments,
\* forwards to the same-named manager method with the Volume itself as the
\* volume argument followed by those arguments; reserve, unreserve,
\* initialize_connection and terminate_connection take no volume argument.
C8_ConvenienceForwards ==
    (rcall.method # ""
       /\ Len(rcall.args) = Len(DocumentedParams(rcall.method))) =>
        /\ result.kind # "raise" \/ result.val.s # "TypeError"
        /\ call.op = rcall.method
        /\ call.args = <<rcall.self>> \o rcall.args

\* C9: every manager operation issues exactly one request per call; a failed
\* request fails the operation with that same error, without a second
\* request; a response to initialize_connection that lacks 'connection_info'
\* surfaces as the lookup error.
C9_OneRequestErrorsPropagate ==
    (call.op # "") =>
        /\ Len(requests) <= 1
        /\ (pc \in {"return", "done"}) => Len(requests) = 1
        /\ (Finished /\ ~response.ok) =>
            /\ result.kind = "raise"
            /\ result.val.s = response.exc
        /\ (Finished /\ response.ok /\ call.op = "initialize_connection"
              /\ ~HasKey(response.body, "connection_info")) =>
            /\ result.kind = "raise"
            /\ result.val.s = "KeyError"

C9_Witness ==
    /\ Finished /\ call.op = "initialize_connection"
    /\ response.ok /\ ~HasKey(response.body, "connection_info")
    /\ result.kind = "raise"
    /\ Len(requests) = 1

\* C10: the body sent by an action is the body object as the hooks left it:
\* what each registered hook added is in the request, and with no hook
\* registered the request carries the base body unchanged.
C10_SentBodyIsHookedBody ==
    (call.op \in ActionOps /\ requests # <<>>) =>
        /\ requests[1].body = hookLeft
        /\ \A h \in DOMAIN hooks : HasKey(requests[1].body, hooks[h])
        /\ (hooks = <<>>) => requests[1].body = baseBody

C10_Witness ==
    /\ Finished /\ call.op \in ActionOps
    /\ Len(hooks) >= 1
    /\ Len(requests) = 1
    /\ HasKey(requests[1].body, hooks[1])
    /\ ~HasKey(baseBody, hooks[1])

====
